---- MODULE Spec2Model ----
(***************************************************************************)
(* Model of matverse/omega_gateway.py: the pure scoring functions and the  *)
(* rolling OmegaValidator.                                                 *)
(*                                                                         *)
(* A Python float is a record [kind, num, den]: kind "fin" is the exact    *)
(* rational num/den in lowest terms (den > 0); "nan", "inf" and "ninf" are *)
(* the non-finite values.  Arithmetic is exact; the inputs are chosen so   *)
(* that the double computation of the tail size (line 80) and the exact    *)
(* one agree for every sample count the model reaches.                     *)
(*                                                                         *)
(* Python objects that can be aliased (the record dicts and the list that  *)
(* holds them) live in a heap: dicts is the sequence of live dict objects, *)
(* a dict is named by its index, and a list is a sequence of such indices. *)
(***************************************************************************)
EXTENDS Integers, Sequences, FiniteSets

VARIABLES
    omega_threshold,  \* self.omega_threshold
    qcvar_limit,      \* self.qcvar_limit
    qcvar_alpha,      \* self.qcvar_alpha
    max_history,      \* self.max_history
    min_samples,      \* self.min_samples
    dicts,            \* heap of dict objects (records and their copies)
    history,          \* self._history: the validator's list of dict references
    omega_history,    \* self._omega_history
    cvar_history,     \* self._cvar_history
    returned,         \* the list object a get_validation_summary call created
    summary,          \* the structure the caller holds: which list, which 'latest'
    mutations,        \* caller mutations applied to the held summary
    appended,         \* record values passed to append since the last reset
    op,               \* the operation that ran last
    health_after,     \* the operation a get_system_health call, when it ran last, followed
    ret,              \* what the last operation returned
    samples,          \* compute_qcvar called directly: its samples argument
    alpha,            \* ... its alpha argument
    qcvar_result      \* ... and its return value

vars == <<omega_threshold, qcvar_limit, qcvar_alpha, max_history, min_samples,
          dicts, history, omega_history, cvar_history, returned, summary,
          mutations, appended, op, health_after, ret, samples, alpha, qcvar_result>>

config == <<omega_threshold, qcvar_limit, qcvar_alpha, max_history, min_samples>>

validator == <<dicts, history, omega_history, cvar_history, returned, summary,
               mutations, appended, op, health_after, ret>>

direct == <<samples, alpha, qcvar_result>>

-----------------------------------------------------------------------------
(* Floats *)

Abs(n) == IF n < 0 THEN -n ELSE n

RECURSIVE GCD(_, _)
GCD(a, b) == IF b = 0 THEN a ELSE GCD(b, a % b)

Fin(n, d) ==
    LET g == GCD(Abs(n), d)
    IN [kind |-> "fin", num |-> n \div g, den |-> d \div g]

NaN == [kind |-> "nan", num |-> 0, den |-> 1]
PosInf == [kind |-> "inf", num |-> 1, den |-> 1]
NegInf == [kind |-> "ninf", num |-> -1, den |-> 1]
Zero == Fin(0, 1)
One == Fin(1, 1)

isfinite(x) == x.kind = "fin"

\* x < y as Python compares floats: every comparison with nan is false.
Lt(x, y) ==
    CASE x.kind = "nan" \/ y.kind = "nan" -> FALSE
      [] x.kind = "fin" /\ y.kind = "fin" ->
             LET g == GCD(x.den, y.den)
             IN x.num * (y.den \div g) < y.num * (x.den \div g)
      [] x.kind = "ninf" -> y.kind # "ninf"
      [] x.kind = "inf" -> FALSE
      [] OTHER -> y.kind = "inf"

Le(x, y) == x.kind # "nan" /\ y.kind # "nan" /\ ~Lt(y, x)

\* Python's max(a, b) and min(a, b): the first argument unless the second beats it.
Max(a, b) == IF Lt(a, b) THEN b ELSE a
Min(a, b) == IF Lt(b, a) THEN b ELSE a

Add(x, y) ==
    CASE x.kind = "fin" /\ y.kind = "fin" ->
             LET g == GCD(x.den, y.den)
             IN Fin(x.num * (y.den \div g) + y.num * (x.den \div g),
                    x.den * (y.den \div g))
      [] x.kind = "nan" \/ y.kind = "nan" -> NaN
      [] x.kind = "fin" -> y
      [] y.kind = "fin" -> x
      [] OTHER -> IF x.kind = y.kind THEN x ELSE NaN

Neg(x) ==
    CASE x.kind = "fin" -> Fin(-x.num, x.den)
      [] x.kind = "inf" -> NegInf
      [] x.kind = "ninf" -> PosInf
      [] OTHER -> NaN

Sub(x, y) == Add(x, Neg(y))

\* Products and quotients are only taken of finite values (after _clamp).
Mul(x, y) == Fin(x.num * y.num, x.den * y.den)

Div(x, y) ==
    IF y.num > 0 THEN Fin(x.num * y.den, x.den * y.num)
    ELSE Fin(-(x.num * y.den), x.den * (-y.num))

\* x / n for a positive integer n (sum(...) / len(...)).
DivInt(x, n) == IF x.kind = "fin" THEN Fin(x.num, x.den * n) ELSE x

\* int(n * x) for an integer n >= 0 and a finite x >= 0: truncation is floor.
IntOfProduct(n, x) == (n * x.num) \div x.den

-----------------------------------------------------------------------------
(* Pure functions *)

_DEF_MIN == Zero
_DEF_MAX == One

_clamp(value, min_value, max_value) ==
    IF ~isfinite(value) THEN min_value
    ELSE Max(min_value, Min(max_value, value))

AlphaMin == Fin(1, 1000000)
AlphaMax == Fin(999999, 1000000)

\* OmegaWeights: weights = None is the record with given = FALSE.
NoWeights == [given |-> FALSE, psi |-> Zero, theta |-> Zero, cvar |-> Zero]
Weights(p, t, c) == [given |-> TRUE, psi |-> p, theta |-> t, cvar |-> c]
DefaultWeights == Weights(Fin(45, 100), Fin(35, 100), Fin(20, 100))

\* OmegaWeights.normalized.  The floor 1e-12 of the total lies below the
\* resolution of the weights supplied here (non-negative multiples of 1/100),
\* so the total is the sum when that is positive, and otherwise every weight
\* is 0 and 0 / 1e-12 = 0.
normalized(w) ==
    LET sum == Add(Add(w.psi, w.theta), w.cvar)
    IN IF Lt(Zero, sum)
       THEN Weights(Div(w.psi, sum), Div(w.theta, sum), Div(w.cvar, sum))
       ELSE Weights(Zero, Zero, Zero)

compute_omega(psi, theta, cvar, weights) ==
    LET w == normalized(IF weights.given THEN weights ELSE DefaultWeights)
        safe_psi == _clamp(psi, _DEF_MIN, _DEF_MAX)
        safe_theta == _clamp(theta, _DEF_MIN, _DEF_MAX)
        safe_cvar == Sub(One, _clamp(cvar, _DEF_MIN, _DEF_MAX))
        omega == Add(Add(Mul(safe_psi, w.psi), Mul(safe_theta, w.theta)),
                     Mul(safe_cvar, w.cvar))
    IN _clamp(omega, _DEF_MIN, _DEF_MAX)

\* Faulty variant: drops nan only ("not isnan" for "isfinite").
KeepInfinite(s) == SelectSeq(s, LAMBDA v : v.kind # "nan")
\* [value for value in samples if isfinite(value)]
Clean(s) == SelectSeq(s, isfinite)

RECURSIVE Insert(_, _)
Insert(v, s) ==
    IF s = <<>> THEN <<v>>
    ELSE IF Lt(Head(s), v) THEN <<v>> \o s
    ELSE <<Head(s)>> \o Insert(v, Tail(s))

\* sorted(clean, reverse=True)
RECURSIVE SortedDescending(_)
SortedDescending(s) ==
    IF s = <<>> THEN <<>>
    ELSE Insert(s[Len(s)], SortedDescending(SubSeq(s, 1, Len(s) - 1)))

\* Faulty variant: the + 1 forgotten.
TailCountNoPlusOne(n, clamped_alpha) ==
    LET t == IntOfProduct(n, Sub(One, clamped_alpha))
    IN IF t > 1 THEN t ELSE 1
\* Faulty variant: the product rounded up (math.ceil for int).
TailCountCeil(n, clamped_alpha) ==
    LET x == Sub(One, clamped_alpha)
        t == (n * x.num + x.den - 1) \div x.den + 1
    IN IF t > 1 THEN t ELSE 1
\* max(1, int(len(sorted_values) * (1 - clamped_alpha)) + 1)
TailCount(n, clamped_alpha) ==
    LET t == IntOfProduct(n, Sub(One, clamped_alpha)) + 1
    IN IF t > 1 THEN t ELSE 1

\* sorted_values[:tail_count]
Slice(s, count) == SubSeq(s, 1, IF count < Len(s) THEN count ELSE Len(s))

RECURSIVE Sum(_)
Sum(s) == IF s = <<>> THEN Zero ELSE Add(Head(s), Sum(Tail(s)))

compute_qcvar(smp, a) ==
    LET clamped_alpha == _clamp(a, AlphaMin, AlphaMax)
        clean == Clean(smp)
        sorted_values == SortedDescending(clean)
        tail_count == TailCount(Len(sorted_values), clamped_alpha)
        tail_slice == Slice(sorted_values, tail_count)
    IN IF clean = <<>> THEN Zero
       ELSE DivInt(Sum(tail_slice), Len(tail_slice))

validate_governance_barrier(omega_score, qcvar, threshold, limit) ==
    LET safe_threshold == _clamp(threshold, _DEF_MIN, _DEF_MAX)
        safe_qcvar_limit == _clamp(limit, _DEF_MIN, _DEF_MAX)
        omega_ok == Le(safe_threshold, _clamp(omega_score, _DEF_MIN, _DEF_MAX))
        qcvar_ok == Le(_clamp(qcvar, _DEF_MIN, _DEF_MAX), safe_qcvar_limit)
    IN [omega_ok |-> omega_ok,
        qcvar_ok |-> qcvar_ok,
        production_ready |-> omega_ok /\ qcvar_ok,
        omega_threshold |-> safe_threshold,
        qcvar_limit |-> safe_qcvar_limit]

-----------------------------------------------------------------------------
(* Heap of dict objects *)

NoReturn == [none |-> TRUE]
EmptyDict == [empty |-> TRUE]

Last(s) == s[Len(s)]

\* The values a list of dict references holds.
Deref(d, list) == [i \in 1..Len(list) |-> d[list[i]]]

RECURSIVE FirstOccurrences(_, _)
FirstOccurrences(s, seen) ==
    IF s = <<>> THEN <<>>
    ELSE IF Head(s) \in seen THEN FirstOccurrences(Tail(s), seen)
    ELSE <<Head(s)>> \o FirstOccurrences(Tail(s), seen \cup {Head(s)})

\* Python frees a dict no list and no held result refers to; the dicts that
\* stay are renumbered in the order history, returned, latest reaches them
\* (an object's address is not observable).
Collect(d, h, r, latest) ==
    LET live == FirstOccurrences(h \o r \o (IF latest = 0 THEN <<>> ELSE <<latest>>), {})
        new(id) == CHOOSE k \in 1..Len(live) : live[k] = id
    IN [dicts |-> [k \in 1..Len(live) |-> d[live[k]]],
        history |-> [i \in 1..Len(h) |-> new(h[i])],
        returned |-> [i \in 1..Len(r) |-> new(r[i])],
        latest |-> IF latest = 0 THEN 0 ELSE new(latest)]

\* The heap after an operation: d, the validator's list h, the caller's list r
\* and the caller's summary s.  (\E over a one-element set names a value that
\* is computed once; the operations below use it for their local variables.)
Store(d, h, r, s) ==
    \E c \in {Collect(d, h, r, s.latest)} :
       /\ dicts' = c.dicts
       /\ history' = c.history
       /\ returned' = c.returned
       /\ summary' = [s EXCEPT !.latest = c.latest]

NoSummary == [held |-> FALSE, history |-> "returned", latest |-> 0]

-----------------------------------------------------------------------------
(* OmegaValidator *)

IntMax(a, b) == IF a > b THEN a ELSE b

\* __init__
Construct(threshold, limit, a, mh, ms) ==
    /\ omega_threshold = _clamp(threshold, _DEF_MIN, _DEF_MAX)
    /\ qcvar_limit = _clamp(limit, _DEF_MIN, _DEF_MAX)
    /\ qcvar_alpha = _clamp(a, AlphaMin, AlphaMax)
    /\ max_history = IntMax(1, mh)
    /\ min_samples = IntMax(1, ms)
    /\ dicts = <<>>
    /\ history = <<>>
    /\ omega_history = <<>>
    /\ cvar_history = <<>>

\* Faulty variant: pop() for pop(0), the newest entry goes.
PopNewest(s, max) == IF Len(s) > max THEN SubSeq(s, 1, max) ELSE s
\* Faulty variant: no trim at all.
PopNothing(s, max) == s
\* while len(s) > self.max_history: s.pop(0)
RECURSIVE PopOldest(_, _)
PopOldest(s, max) == IF Len(s) > max THEN PopOldest(Tail(s), max) ELSE s

\* Faulty variant: the omega history is left untrimmed.
TrimSkipsOmega(h, o, c, max) ==
    [history |-> PopOldest(h, max),
     omega_history |-> o,
     cvar_history |-> PopOldest(c, max)]
\* _trim_history, on the three lists
_trim_history(h, o, c, max) ==
    [history |-> PopOldest(h, max),
     omega_history |-> PopOldest(o, max),
     cvar_history |-> PopOldest(c, max)]

_compute_qcvar_history(c) == compute_qcvar(c, qcvar_alpha)

\* Faulty variant: the barrier's verdict returned without the min_samples gate.
SystemHealthUngated(h, o, c) ==
    LET qcvar_value == IF c # <<>> THEN _compute_qcvar_history(c) ELSE Zero
        latest_omega == IF o # <<>> THEN Last(o) ELSE Zero
    IN [latest_omega |-> latest_omega,
        qcvar |-> qcvar_value,
        production_ready |->
            validate_governance_barrier(latest_omega, qcvar_value,
                                        omega_threshold, qcvar_limit).production_ready,
        sample_count |-> Len(h)]
\* Faulty variant: [0] for [-1], the oldest recorded omega.
SystemHealthOldestOmega(h, o, c) ==
    LET qcvar_value == IF c # <<>> THEN _compute_qcvar_history(c) ELSE Zero
        latest_omega == IF o # <<>> THEN Head(o) ELSE Zero
        ready == validate_governance_barrier(latest_omega, qcvar_value,
                                             omega_threshold, qcvar_limit).production_ready
    IN [latest_omega |-> latest_omega,
        qcvar |-> qcvar_value,
        production_ready |-> IF Len(h) >= min_samples THEN ready ELSE FALSE,
        sample_count |-> Len(h)]
\* What get_system_health returns when the three lists are h, o and c.
SystemHealth(h, o, c) ==
    LET qcvar_value == IF c # <<>> THEN _compute_qcvar_history(c) ELSE Zero
        latest_omega == IF o # <<>> THEN Last(o) ELSE Zero
        ready == validate_governance_barrier(latest_omega, qcvar_value,
                                             omega_threshold, qcvar_limit).production_ready
    IN [latest_omega |-> latest_omega,
        qcvar |-> qcvar_value,
        production_ready |-> IF Len(h) >= min_samples THEN ready ELSE FALSE,
        sample_count |-> Len(h)]

\* Faulty variant: list(self._history), a new list of the same dicts.
AliasEntries(d, h) == [dicts |-> d, list |-> h]
\* [dict(entry) for entry in self._history]: the heap with the copies, and the
\* new list of references to them.
CopyEntries(d, h) ==
    [dicts |-> d \o [i \in 1..Len(h) |-> d[h[i]]],
     list |-> [i \in 1..Len(h) |-> Len(d) + i]]

\* What get_validation_summary returns, by value, when the heap is d, the
\* history h and the cvar history c.
ValidationSummary(d, h, c) ==
    LET history_copy == Deref(d, h)
    IN [latest |-> IF history_copy # <<>> THEN Last(history_copy) ELSE EmptyDict,
        history |-> history_copy,
        qcvar |-> IF c # <<>> THEN _compute_qcvar_history(c) ELSE Zero,
        omega_threshold |-> omega_threshold,
        qcvar_limit |-> qcvar_limit]

\* Faulty variant: the list is left as it is.
ClearNothing(s) == s
\* list.clear()
clear(s) == <<>>

-----------------------------------------------------------------------------
(* Bounds and inputs *)

\* validate_system calls between two resets
MaxCalls == 3
\* caller mutations of one returned summary
MaxMutations == 1

\* Constructor arguments, before __init__ clamps and coerces them.
ThresholdInputs == {Fin(9, 10)}
LimitInputs == {Fin(1, 10)}
AlphaInputs == {Fin(1, 2), Fin(9, 10)}
MaxHistoryInputs == {0, 2}
MinSamplesInputs == {0, 3}

\* validate_system arguments: in range and below it without weights; non-finite
\* and above range with weights.
Evaluations ==
    {[psi |-> One, theta |-> One, cvar |-> Fin(-1, 2), weights |-> NoWeights],
     [psi |-> NaN, theta |-> Fin(3, 2), cvar |-> Fin(3, 2),
      weights |-> Weights(Fin(2, 1), One, One)]}

\* What a caller writes into a returned structure.
Fields == {"cvar", "omega"}
CallerValues == {Zero}
CallerRecords == {[psi |-> Zero, theta |-> Zero, cvar |-> Zero, omega |-> Zero]}

\* compute_qcvar called directly.
SampleValues == {NaN, NegInf, Fin(-1, 1), Zero, Fin(1, 2), One}
MaxSamples == 3
SampleInputs ==
    UNION {[1..n -> SampleValues] : n \in 0..MaxSamples}
        \cup [1..10 -> {Fin(1, 2), One}]
DirectAlphas ==
    {NaN, PosInf, NegInf, Fin(-1, 2), Zero, Fin(1, 2), Fin(19, 20), One, Fin(2, 1)}

NotComputed == [done |-> FALSE, value |-> Zero]

-----------------------------------------------------------------------------
(* Operations *)

Init ==
    /\ \E threshold \in ThresholdInputs, limit \in LimitInputs, a \in AlphaInputs,
          mh \in MaxHistoryInputs, ms \in MinSamplesInputs :
            Construct(threshold, limit, a, mh, ms)
    /\ returned = <<>>
    /\ summary = NoSummary
    /\ mutations = 0
    /\ appended = <<>>
    /\ op = "__init__"
    /\ health_after = "none"
    /\ ret = NoReturn
    /\ samples = <<>>
    /\ alpha = NaN
    /\ qcvar_result = NotComputed

ValidateSystem(psi, theta, cvar, weights) ==
    /\ Len(appended) < MaxCalls
    /\ \E omega \in {compute_omega(psi, theta, cvar, weights)},
          safe_cvar \in {_clamp(cvar, _DEF_MIN, _DEF_MAX)} :
        \E record \in {[psi |-> _clamp(psi, _DEF_MIN, _DEF_MAX),
                        theta |-> _clamp(theta, _DEF_MIN, _DEF_MAX),
                        cvar |-> safe_cvar,
                        omega |-> omega]},
           trimmed \in {_trim_history(Append(history, Len(dicts) + 1),
                                      Append(omega_history, omega),
                                      Append(cvar_history, safe_cvar),
                                      max_history)} :
        \E qcvar_value \in {_compute_qcvar_history(trimmed.cvar_history)} :
        \E readiness \in {validate_governance_barrier(omega, qcvar_value,
                                                      omega_threshold, qcvar_limit)} :
           /\ Store(Append(dicts, record), trimmed.history, returned, summary)
           /\ omega_history' = trimmed.omega_history
           /\ cvar_history' = trimmed.cvar_history
           /\ appended' = Append(appended, record)
           /\ ret' = [omega |-> omega,
                      qcvar |-> qcvar_value,
                      production_ready |-> readiness.production_ready,
                      history_size |-> Len(trimmed.history)]
           /\ op' = "validate_system"
           /\ health_after' = "none"
           /\ UNCHANGED <<config, mutations, direct>>

GetSystemHealth ==
    /\ ret' = SystemHealth(history, omega_history, cvar_history)
    /\ op' = "get_system_health"
    /\ health_after' = op
    /\ UNCHANGED <<config, dicts, history, omega_history, cvar_history, returned,
                   summary, mutations, appended, direct>>

GetValidationSummary ==
    LET copy == CopyEntries(dicts, history)
        history_copy == copy.list
    IN /\ Store(copy.dicts, history, history_copy,
                [held |-> TRUE,
                 history |-> "returned",
                 latest |-> IF history_copy # <<>> THEN Last(history_copy) ELSE 0])
       /\ ret' = ValidationSummary(dicts, history, cvar_history)
       /\ mutations' = 0
       /\ op' = "get_validation_summary"
       /\ health_after' = "none"
       /\ UNCHANGED <<config, omega_history, cvar_history, appended, direct>>

Reset ==
    /\ Store(dicts, clear(history), returned, summary)
    /\ omega_history' = clear(omega_history)
    /\ cvar_history' = clear(cvar_history)
    /\ appended' = <<>>
    /\ ret' = NoReturn
    /\ op' = "reset"
    /\ health_after' = "none"
    /\ UNCHANGED <<config, mutations, direct>>

\* The caller's operations on the summary it holds.  summary.history names the
\* list object the summary's 'history' refers to.
HeldList == IF summary.history = "history" THEN history ELSE returned

CallerStep(name) ==
    /\ summary.held
    /\ mutations < MaxMutations
    /\ mutations' = mutations + 1
    /\ ret' = NoReturn
    /\ op' = name
    /\ health_after' = "none"
    /\ UNCHANGED <<config, omega_history, cvar_history, appended, direct>>

\* summary["history"][i][field] = value
SetEntryField(i, field, value) ==
    /\ CallerStep("set_entry_field")
    /\ i \in 1..Len(HeldList)
    /\ Store([dicts EXCEPT ![HeldList[i]][field] = value], history, returned, summary)

\* summary["latest"][field] = value
SetLatestField(field, value) ==
    /\ CallerStep("set_latest_field")
    /\ summary.latest # 0
    /\ Store([dicts EXCEPT ![summary.latest][field] = value], history, returned, summary)

\* summary["history"].append(record)
AppendEntry(record) ==
    /\ CallerStep("append_entry")
    /\ IF summary.history = "history"
       THEN Store(Append(dicts, record), Append(history, Len(dicts) + 1), returned, summary)
       ELSE Store(Append(dicts, record), history, Append(returned, Len(dicts) + 1), summary)

\* del summary["history"][i]
RemoveAt(s, i) == SubSeq(s, 1, i - 1) \o SubSeq(s, i + 1, Len(s))
RemoveEntry(i) ==
    /\ CallerStep("remove_entry")
    /\ i \in 1..Len(HeldList)
    /\ IF summary.history = "history"
       THEN Store(dicts, RemoveAt(history, i), returned, summary)
       ELSE Store(dicts, history, RemoveAt(returned, i), summary)

Next ==
    \/ \E e \in Evaluations : ValidateSystem(e.psi, e.theta, e.cvar, e.weights)
    \/ GetSystemHealth
    \/ GetValidationSummary
    \/ Reset
    \/ \E i \in 1..(MaxCalls + MaxMutations), field \in Fields, value \in CallerValues :
           SetEntryField(i, field, value)
    \/ \E field \in Fields, value \in CallerValues : SetLatestField(field, value)
    \/ \E record \in CallerRecords : AppendEntry(record)
    \/ \E i \in 1..(MaxCalls + MaxMutations) : RemoveEntry(i)

Spec == Init /\ [][Next]_vars

\* compute_qcvar on its own: Init draws the samples, the action applies it.
InitQcvar ==
    /\ Construct(Fin(9, 10), Fin(1, 10), Fin(9, 10), 100, 5)
    /\ returned = <<>>
    /\ summary = NoSummary
    /\ mutations = 0
    /\ appended = <<>>
    /\ op = "none"
    /\ health_after = "none"
    /\ ret = NoReturn
    /\ samples \in SampleInputs
    /\ alpha = NaN
    /\ qcvar_result = NotComputed

ComputeQcvar(a) ==
    /\ alpha' = a
    /\ qcvar_result' = [done |-> TRUE, value |-> compute_qcvar(samples, a)]
    /\ op' = "compute_qcvar"
    /\ health_after' = "none"
    /\ UNCHANGED <<config, dicts, history, omega_history, cvar_history, returned,
                   summary, mutations, appended, ret, samples>>

NextQcvar == \E a \in DirectAlphas : ComputeQcvar(a)

SpecQcvar == InitQcvar /\ [][NextQcvar]_vars

-----------------------------------------------------------------------------
(* Claims *)

CallerOps == {"set_entry_field", "set_latest_field", "append_entry", "remove_entry"}

IntMin(a, b) == IF a < b THEN a ELSE b

LastN(s, n) == SubSeq(s, Len(s) - n + 1, Len(s))

\* The barrier's verdict on what a get_system_health result reports.
BarrierPasses(omega, qcvar) ==
    validate_governance_barrier(omega, qcvar, omega_threshold, qcvar_limit).production_ready

\* C1: the history get_validation_summary returns is the last
\* min(k, max_history) records appended since the last reset, in insertion
\* order, k being the number of validate_system calls since that reset; its
\* length never exceeds max_history.
C1_HistoryIsFifoWindow ==
    op = "get_validation_summary" =>
        /\ ret.history = LastN(appended, IntMin(Len(appended), max_history))
        /\ Deref(dicts, HeldList) = ret.history
        /\ Len(ret.history) <= max_history

\* A summary taken after an eviction that FIFO and LIFO eviction tell apart.
C1_Witness ==
    /\ op = "get_validation_summary"
    /\ Len(appended) > max_history
    /\ appended[1] # Last(appended)
    /\ Len(ret.history) = max_history

\* C2: get_system_health reports production_ready = FALSE whenever
\* sample_count < min_samples, whatever the barrier says.
C2_GatedBelowMinSamples ==
    (op = "get_system_health" /\ ret.sample_count < min_samples) =>
        ret.production_ready = FALSE

\* Fewer samples than min_samples, and the barrier alone would pass.
C2_Witness ==
    /\ op = "get_system_health"
    /\ 0 < ret.sample_count
    /\ ret.sample_count < min_samples
    /\ BarrierPasses(ret.latest_omega, ret.qcvar)
    /\ ret.production_ready = FALSE

\* C3: a caller's mutation of a returned summary (a field of an entry or of
\* 'latest', an append to or a removal from the returned list) leaves the
\* validator's history as it was, so that get_validation_summary and
\* get_system_health return what they would have returned without it.
C3_CopyIsolation ==
    [][op' \in CallerOps =>
          /\ Deref(dicts, history)' = Deref(dicts, history)
          /\ omega_history' = omega_history
          /\ cvar_history' = cvar_history
          /\ ValidationSummary(dicts', history', cvar_history') =
                 ValidationSummary(dicts, history, cvar_history)
          /\ SystemHealth(history', omega_history', cvar_history') =
                 SystemHealth(history, omega_history, cvar_history)]_vars

\* The caller changed an entry of its copy, which now differs from the
\* validator's record at the same place.
C3_Witness ==
    /\ op = "set_entry_field"
    /\ Len(returned) = Len(history)
    /\ \E i \in 1..Len(history) : dicts[returned[i]] # dicts[history[i]]

\* C4: reset empties the three sequences and leaves the five configuration
\* values alone; get_system_health right after it reports sample_count = 0
\* and production_ready = FALSE.
C4_ResetClears ==
    [][/\ op' = "reset" =>
             /\ history' = <<>>
             /\ omega_history' = <<>>
             /\ cvar_history' = <<>>
             /\ config' = config
       /\ (op = "reset" /\ op' = "get_system_health") =>
             /\ ret'.sample_count = 0
             /\ ret'.production_ready = FALSE]_vars

\* get_system_health right after a reset that discarded records a summary
\* still holds.
C4_Witness ==
    /\ op = "get_system_health"
    /\ health_after = "reset"
    /\ returned # <<>>
    /\ ret.sample_count = 0

\* C5: after validate_system and after reset the omega history and the cvar
\* history are as long as the history, and hold, index by index, the omega
\* and cvar fields of its records.
C5_LockStep ==
    op \in {"validate_system", "reset"} =>
        /\ Len(omega_history) = Len(history)
        /\ Len(cvar_history) = Len(history)
        /\ \A i \in 1..Len(history) :
              /\ omega_history[i] = dicts[history[i]].omega
              /\ cvar_history[i] = dicts[history[i]].cvar

\* A validate_system call that evicted a record.
C5_Witness ==
    /\ op = "validate_system"
    /\ Len(appended) > max_history
    /\ Len(history) = max_history
    /\ omega_history[1] # Last(omega_history)

\* C6 as claimed: compute_qcvar returns a value >= 0 for every sample
\* collection and every alpha.
C6_Original == qcvar_result.done => Le(Zero, qcvar_result.value)

NoNegativeSample == \A i \in 1..Len(samples) : isfinite(samples[i]) => Le(Zero, samples[i])

\* C6, amended: compute_qcvar returns a value >= 0 when no finite sample is
\* negative.
C6_NonNegativeOnNonNegativeSamples ==
    (qcvar_result.done /\ NoNegativeSample) => Le(Zero, qcvar_result.value)

\* Positive and non-finite samples together, none negative.
C6_Witness ==
    /\ qcvar_result.done
    /\ NoNegativeSample
    /\ \E i \in 1..Len(samples) : samples[i] = NegInf
    /\ \E i \in 1..Len(samples) : Lt(Zero, samples[i])
    /\ Lt(Zero, qcvar_result.value)

\* The mean of the k largest values of the finite samples, without sorting:
\* t is the k-th largest value, every sample above t counts once and t fills
\* the rest of the k places.
FiniteIndices == {i \in 1..Len(samples) : isfinite(samples[i])}
CountAbove(t) == Cardinality({i \in FiniteIndices : Lt(t, samples[i])})
CountAtLeast(t) == Cardinality({i \in FiniteIndices : Le(t, samples[i])})
RECURSIVE SumOver(_)
SumOver(I) ==
    IF I = {} THEN Zero
    ELSE LET i == CHOOSE j \in I : TRUE
         IN Add(samples[i], SumOver(I \ {i}))
MeanOfLargest(k) ==
    LET i == CHOOSE j \in FiniteIndices : CountAbove(samples[j]) < k /\ k <= CountAtLeast(samples[j])
        t == samples[i]
        above == {j \in FiniteIndices : Lt(t, samples[j])}
        fill == Fin(t.num * (k - Cardinality(above)), t.den)
    IN DivInt(Add(SumOver(above), fill), k)

\* max(1, floor(n * (1 - a)) + 1) for a finite a.
ClaimedTailSize(n, a) == IntMax(1, ((n * (a.den - a.num)) \div a.den) + 1)

\* C7: with at least one finite sample, compute_qcvar returns the mean of the
\* k largest finite samples, n the number of finite samples (non-finite ones
\* neither counted nor averaged) and k = max(1, floor(n * (1 - alpha)) + 1)
\* for alpha as clamped into [1e-6, 1 - 1e-6]; for a finite alpha the
\* unclamped alpha gives the same k once k is capped at n.
C7_MeanOfLargest ==
    (qcvar_result.done /\ FiniteIndices # {}) =>
        LET n == Cardinality(FiniteIndices)
            k == ClaimedTailSize(n, _clamp(alpha, AlphaMin, AlphaMax))
        IN /\ k <= n
           /\ qcvar_result.value = MeanOfLargest(k)
           /\ isfinite(alpha) => IntMin(n, ClaimedTailSize(n, alpha)) = k

\* A tail strictly inside the finite samples, beside a non-finite sample.
C7_Witness ==
    /\ qcvar_result.done
    /\ \E i \in 1..Len(samples) : ~isfinite(samples[i])
    /\ Cardinality(FiniteIndices) = 2
    /\ alpha = Fin(19, 20)
    /\ \E i \in FiniteIndices : Lt(samples[i], qcvar_result.value)

TenAtDefaultAlpha ==
    /\ qcvar_result.done
    /\ Cardinality(FiniteIndices) = 10
    /\ alpha = Fin(19, 20)

\* C8 as claimed: for 10 finite samples and alpha = 0.95 the tail that is
\* averaged has 2 samples, the two largest.
C8_Original == TenAtDefaultAlpha => qcvar_result.value = MeanOfLargest(2)

\* C8, amended: for 10 finite samples and alpha = 0.95 the tail has 1 sample,
\* the largest, since floor(10 * 0.05) + 1 = 1.
C8_TailOfOne == TenAtDefaultAlpha => qcvar_result.value = MeanOfLargest(1)

\* Ten samples whose two largest differ.
C8_Witness ==
    /\ TenAtDefaultAlpha
    /\ MeanOfLargest(1) # MeanOfLargest(2)
    /\ qcvar_result.value = One

\* C9: get_system_health right after validate_system reports that call's
\* omega as latest_omega, its qcvar (taken over the whole cvar history after
\* the append and the trim), its history_size as sample_count, and as
\* production_ready that call's production_ready and sample_count >=
\* min_samples; validate_system's own production_ready is the barrier's,
\* not gated by min_samples.
C9_HealthAfterValidate ==
    [][/\ (op = "validate_system" /\ op' = "get_system_health") =>
             /\ ret'.latest_omega = ret.omega
             /\ ret'.qcvar = ret.qcvar
             /\ ret'.sample_count = ret.history_size
             /\ ret'.production_ready =
                    (ret.production_ready /\ ret'.sample_count >= min_samples)
       /\ op' = "validate_system" =>
             /\ ret'.omega = Last(appended').omega
             /\ ret'.qcvar = compute_qcvar(cvar_history', qcvar_alpha)
             /\ ret'.production_ready = BarrierPasses(ret'.omega, ret'.qcvar)]_vars

\* get_system_health right after a validate_system call that reported ready
\* with fewer than min_samples records.
C9_Witness ==
    /\ op = "get_system_health"
    /\ health_after = "validate_system"
    /\ 1 < ret.sample_count
    /\ ret.sample_count < min_samples
    /\ BarrierPasses(ret.latest_omega, ret.qcvar)
    /\ ret.production_ready = FALSE

\* C10: with min_samples > max_history, get_system_health never reports
\* production_ready = TRUE: the trim keeps sample_count at most max_history,
\* below min_samples.
C10_NeverReadyWhenMinAboveMax ==
    (min_samples > max_history /\ op = "get_system_health") =>
        /\ ret.sample_count <= max_history
        /\ ret.production_ready = FALSE

\* A full window after an eviction, the barrier alone passing.
C10_Witness ==
    /\ min_samples > max_history
    /\ op = "get_system_health"
    /\ Len(appended) > max_history
    /\ ret.sample_count = max_history
    /\ BarrierPasses(ret.latest_omega, ret.qcvar)

====
